---- MODULE Spec2Model ----
(***************************************************************************)
(* A model of dynast.analytics.visualize.frontier_builder (the Pareto      *)
(* front builder) as a state machine over its stages, and of collect_hv,   *)
(* which calls it on growing prefixes of an evaluation log.                *)
(*                                                                         *)
(* Coordinates are integers.  The code computes in IEEE doubles; on the    *)
(* coordinate ranges explored here the double results of the line cut      *)
(* (line 156) and of the radius filter (line 127) equal the exact ones     *)
(* (checked exhaustively for coordinates in -1..5), so exact integer       *)
(* arithmetic is used, and the IEEE results of a division by zero          *)
(* (inf, nan) are modelled by cases in AboveLine.  The one place where     *)
(* rounding shows on this range, the sign of line 121 for three points on  *)
(* one line, is a choice of the loop step (AreaPositive).                  *)
(*                                                                         *)
(* shapely / GEOS, scipy / Qhull and the numpy sort leave some results     *)
(* unspecified: the vertex a ring or a simplex starts at, the order of     *)
(* rows with equal sort keys, the triangulation of cocircular points, a    *)
(* region of zero area in it, the hull of a table with a NaN/Inf row.  One *)
(* installation always makes the same choice, so the choice is the         *)
(* variable lib, drawn in Init and never changed.                          *)
(*                                                                         *)
(* dynast.manager.ParameterManager is modelled beside it: the mapping of   *)
(* index vectors to parameter dicts and back, and random_samples.          *)
(***************************************************************************)
EXTENDS Integers, Sequences, FiniteSets, TLC

\* Largest coordinate of the explored grid, largest alpha explored.
MaxCoord == 2
MaxAlpha == 1

\* collect_hv, scaled down: the intervals range(10, 200, 10) and
\* range(200, 10000, 100) of lines 359-360 as range(StartStep, StartStop,
\* StartStep) and range(StartStop, EndStop, EndStep); the most rows of a
\* `supernet` frame, the largest macs value in it, the largest hypervolume.
StartStep == 2
StartStop == 3
EndStep == 1
EndStop == 5
MaxRows == 4
MaxMacs == 1
MaxHv == 1

\* ParameterManager: the largest `count` of a parameter, the largest option
\* value (a `vars` list holds up to MaxOpt + 1 of the values 0..MaxOpt, so
\* it can hold them all, and can hold one twice).
MaxCount == 2
MaxOpt == 1

\* random_samples: the largest `size` and the largest `trial_limit`.
MaxSize == 2
MaxTrials == 2

\* visualize.py line 94: fewer rows than this take the convex hull.
HullThreshold == 4

\* visualize.py line 161: best_acc = 0
BestAccStart == 0

VARIABLES
    cloud,        \* rows of df[optimization_metrics] with finite coordinates
    nonfinite,    \* TRUE: the table holds one more row, with a NaN/Inf coordinate
    alpha,        \* the alpha argument
    lib,          \* what the installed libraries do where their contract is silent
    pc,           \* stage of the call
    branch,       \* which arm of the `if` of line 94 the call took
    err,          \* exception that ended the call ("" if none)
    result,       \* the shapely geometry `result`
    tris,         \* tri.vertices: the Delaunay triangles, as index triples
    ti,           \* number of triangles the loop of line 105 has processed
    edges,        \* the set `edges`
    edge_points,  \* the list `edge_points`
    bound,        \* the list `bound`
    cand,         \* df after the cut and the sort (lines 156-158)
    front,        \* the returned frame, as a sequence of points
    call,         \* 1: the caller's call, 2: a second call on the first front
    prev,         \* the front the first call returned (for call = 2)
    left_point,   \* the tuple `left_point` of line 151 (<<>> before it)
    right_point,  \* the tuple `right_point` of line 152 (<<>> before it)
    roots,        \* the triangles (by position) lines 124-127 were evaluated for
    again,        \* TRUE: this call repeats the one before it, same df and alpha
    earlier,      \* what the repeated call ended with: [err, front]
    supernet,     \* collect_hv: the rows of the `supernet` frame
    hv_list,      \* collect_hv: the list `hv_list`
    hv_k,         \* collect_hv: number of entries of full_interval processed
    hv_pc,        \* collect_hv: "idle", "loop", "raise", "return", "error"
    hv_interval,  \* collect_hv: the array `full_interval`
    hv_seen,      \* collect_hv: rows of each frame line 365 has handed over
    self,         \* ParameterManager: the fields of the object
    pymoo_vector, \* the vector handed to translate2param
    parameters,   \* what translate2param returned
    output,       \* what translate2pymoo returned
    pm_pc,        \* ParameterManager: "idle", "ready", "param", "pymoo",
                  \* "sampling", "returned", "error"
    size,         \* random_samples: the argument `size`
    trial_limit,  \* random_samples: the argument `trial_limit`
    pymoo_vector_list,  \* random_samples: the list of the same name
    trials,       \* random_samples: the counter `trials`
    warned        \* random_samples: the warning of line 107 was logged

\* What one call of frontier_builder reads and writes, and its caller's notes.
fbvars == <<cloud, nonfinite, alpha, lib, pc, branch, err, result, tris, ti,
            edges, edge_points, bound, cand, front, call, prev, left_point,
            right_point, roots, again, earlier>>

hvvars == <<supernet, hv_list, hv_k, hv_pc, hv_interval, hv_seen>>

rsvars == <<size, trial_limit, pymoo_vector_list, trials, warned>>

pmvars == <<self, pymoo_vector, parameters, output, pm_pc, rsvars>>

vars == <<fbvars, hvvars, pmvars>>

-----------------------------------------------------------------------------
(* Points, sequences *)

Xs == (0 - 1)..MaxCoord
Ys == 0..MaxCoord
Points == Xs \X Ys

Range(s) == {s[i] : i \in 1..Len(s)}

\* Lexicographic order on points, used only to enumerate the input clouds.
PtLeq(p, q) == p[1] < q[1] \/ (p[1] = q[1] /\ p[2] <= q[2])

SeqsOfLen(n) == [1..n -> Points]

SortedClouds ==
    UNION {{s \in SeqsOfLen(n) : \A i \in 1..(n - 1) : PtLeq(s[i], s[i + 1])}
           : n \in 0..HullThreshold}

\* The two concrete clouds of the documented scenarios.
ScenarioFive == <<(<<1, 1>>), (<<2, 3>>), (<<3, 2>>), (<<4, 5>>), (<<5, 4>>)>>
ScenarioFlat == <<(<<1, 5>>), (<<2, 5>>), (<<3, 5>>)>>

\* Tables with accuracies below zero: none above zero, and one above zero.
ScenariosBelow ==
    {<<(<<0, 0 - 1>>), (<<1, 0>>), (<<2, 0 - 2>>)>>,
     <<(<<0, 0 - 1>>), (<<1, 2>>)>>,
     <<(<<0, 0 - 2>>), (<<1, 0 - 1>>), (<<2, 1>>), (<<2, 0 - 1>>)>>}

Sign(n) == IF n > 0 THEN 1 ELSE IF n < 0 THEN 0 - 1 ELSE 0

\* > 0: o, a, b turn counter-clockwise; < 0: clockwise; 0: collinear.
Cross(o, a, b) == (a[1] - o[1]) * (b[2] - o[2]) - (a[2] - o[2]) * (b[1] - o[1])

Collinear(S) == \A a \in S, b \in S, c \in S : Cross(a, b, c) = 0

Between(p, q, u) ==
    /\ Cross(p, q, u) = 0
    /\ (u[1] - p[1]) * (q[1] - p[1]) + (u[2] - p[2]) * (q[2] - p[2]) > 0
    /\ (u[1] - q[1]) * (p[1] - q[1]) + (u[2] - q[2]) * (p[2] - q[2]) > 0

\* The lowest point, the leftmost of the lowest.
Pivot(S) ==
    CHOOSE p \in S : \A q \in S : p[2] < q[2] \/ (p[2] = q[2] /\ p[1] <= q[1])

\* The point of S last in lexicographic order and the one first in it.
LexMax(S) == CHOOSE p \in S : \A q \in S : PtLeq(q, p)
LexMin(S) == CHOOSE p \in S : \A q \in S : PtLeq(p, q)

-----------------------------------------------------------------------------
(* Rings.  A ring is given by its directed edges, the interior on the      *)
(* right of each (clockwise, the orientation GEOS gives a shell).          *)

Succs(D, v) == {e[2] : e \in {f \in D : f[1] = v}}

RECURSIVE Walk(_, _, _)
Walk(D, cur, acc) ==
    LET nxt == CHOOSE w \in Succs(D, cur) : TRUE
    IN  IF nxt \in Range(acc) THEN acc ELSE Walk(D, nxt, Append(acc, nxt))

Verts(D) == {e[1] : e \in D} \cup {e[2] : e \in D}

\* The vertices of the ring in clockwise order from its pivot.
RingVerts(D) == LET p == Pivot(Verts(D)) IN Walk(D, p, <<p>>)

\* D is one simple closed ring: one way out of every vertex, all on one cycle.
IsSingleRing(D) ==
    /\ D # {}
    /\ \A v \in Verts(D) : Cardinality(Succs(D, v)) = 1
    /\ \A v \in Verts(D) : Cardinality({e \in D : e[2] = v}) = 1
    /\ Len(RingVerts(D)) = Cardinality(D)

Rotate(s, k) == [i \in 1..Len(s) |-> s[((i - 1 + k) % Len(s)) + 1]]

\* The closed coordinate sequence of the ring, started where this
\* installation starts it: first point repeated at the end.
ClosedRing(D, rot) == LET r == Rotate(RingVerts(D), rot) IN Append(r, r[1])

-----------------------------------------------------------------------------
(* points.convex_hull, line 96 *)

\* The directed hull edges of a non-collinear point set: p -> q with every
\* other point strictly to the right, or on the segment between them.
HullEdges(S) ==
    {e \in S \X S :
        /\ e[1] # e[2]
        /\ \A u \in S \ {e[1], e[2]} :
              Cross(e[1], e[2], u) < 0 \/ Between(e[1], e[2], u)}

\* GEOS: no point gives an empty geometry, one distinct point a Point,
\* collinear points the LineString between the two extreme points, anything
\* else the Polygon of the hull.
ConvexHull(S, rot) ==
    IF S = {} THEN [kind |-> "empty", coords |-> <<>>]
    ELSE IF Cardinality(S) = 1
    THEN [kind |-> "point", coords |-> <<CHOOSE p \in S : TRUE>>]
    ELSE IF Collinear(S)
    THEN [kind |-> "line",
          coords |-> IF rot % 2 = 0 THEN <<LexMin(S), LexMax(S)>>
                                    ELSE <<LexMax(S), LexMin(S)>>]
    ELSE [kind |-> "polygon", coords |-> ClosedRing(HullEdges(S), rot)]

-----------------------------------------------------------------------------
(* Front selection, lines 148-158 *)

MinOf(S) == CHOOSE v \in S : \A w \in S : v <= w
MaxOf(S) == CHOOSE v \in S : \A w \in S : v >= w

\* Mutant of IdxMinX: the last row holding the least x.
IdxMinXLast(b) ==
    LET lo == MinOf({b[i][1] : i \in 1..Len(b)})
    IN  MaxOf({i \in 1..Len(b) : b[i][1] = lo})

\* df.idxmin()[0]: the first row holding the least x.
IdxMinX(b) ==
    LET lo == MinOf({b[i][1] : i \in 1..Len(b)})
    IN  MinOf({i \in 1..Len(b) : b[i][1] = lo})

\* df.idxmax()[1]: the first row holding the greatest y.
IdxMaxY(b) ==
    LET hi == MaxOf({b[i][2] : i \in 1..Len(b)})
    IN  MinOf({i \in 1..Len(b) : b[i][2] = hi})

\* Lines 153-156 for one row p: p.y >= m * p.x + b, where
\* m = (L.y - R.y) / (L.x - R.x) and b = L.y - m * L.x in numpy doubles.
\* L.x = R.x divides by +0.0 without raising: m is nan (L.y = R.y) or an
\* infinity of the sign of L.y - R.y.  nan compares false with everything;
\* inf * 0 and inf - inf are nan; the row is kept only when m * p.x and b
\* are both -inf.
AboveLine(p, L, R) ==
    LET dx == L[1] - R[1]
        dy == L[2] - R[2]
    IN  IF dx > 0 THEN (p[2] - L[2]) * dx >= dy * (p[1] - L[1])
        ELSE IF dx < 0 THEN (p[2] - L[2]) * dx <= dy * (p[1] - L[1])
        ELSE /\ dy # 0
             /\ L[1] # 0
             /\ p[1] # 0
             /\ Sign(p[1]) = 0 - Sign(L[1])
             /\ Sign(dy) * Sign(p[1]) < 0

\* df[df['y'] >= m * df['x'] + b]: the rows kept, in boundary order.
Cut(b) ==
    LET L == b[IdxMinX(b)]
        R == b[IdxMaxY(b)]
    IN  SelectSeq(b, LAMBDA p : AboveLine(p, L, R))

\* One row put into an x-sorted sequence: behind the rows of equal x
\* (a stable sort) or, with rev, in front of them.
RECURSIVE InsertByX(_, _, _)
InsertByX(r, s, rev) ==
    IF s = <<>> THEN <<r>>
    ELSE IF (r[1] < s[1][1]) \/ (rev /\ r[1] = s[1][1]) THEN <<r>> \o s
    ELSE <<s[1]>> \o InsertByX(r, Tail(s), rev)

\* df.sort_values(by='x'), line 157.  numpy's default sort is not stable:
\* rows of equal x come out in boundary order or reversed.
RECURSIVE SortByX(_, _)
SortByX(s, rev) ==
    IF s = <<>> THEN <<>>
    ELSE InsertByX(s[Len(s)], SortByX(SubSeq(s, 1, Len(s) - 1), rev), rev)

-----------------------------------------------------------------------------
(* Cleanup, lines 160-169 *)

\* Mutant of Cleanup: `>=` for `>`, a row equal to best_acc is kept.
RECURSIVE CleanupKeepsTies(_, _)
CleanupKeepsTies(s, best) ==
    IF s = <<>> THEN <<>>
    ELSE IF s[1][2] >= best THEN <<s[1]>> \o CleanupKeepsTies(Tail(s), s[1][2])
    ELSE CleanupKeepsTies(Tail(s), best)

\* Mutant of Cleanup: best_acc a module-level name, still holding the last
\* accuracy of the call before when the call is repeated.
RECURSIVE CleanupBestCarried(_, _)
CleanupBestCarried(s, best) ==
    LET kept == IF again /\ earlier.front # <<>>
                THEN earlier.front[Len(earlier.front)][2]
                ELSE best
        b == IF kept > best THEN kept ELSE best
    IN  IF s = <<>> THEN <<>>
        ELSE IF s[1][2] > b THEN <<s[1]>> \o CleanupBestCarried(Tail(s), s[1][2])
        ELSE CleanupBestCarried(Tail(s), b)

\* Mutant of Cleanup: line 165 left out, best_acc stays what it was.
RECURSIVE CleanupNoUpdate(_, _)
CleanupNoUpdate(s, best) ==
    IF s = <<>> THEN <<>>
    ELSE IF s[1][2] > best THEN <<s[1]>> \o CleanupNoUpdate(Tail(s), best)
    ELSE CleanupNoUpdate(Tail(s), best)

\* Mutant of Cleanup: best_acc starts at the least possible value, not at
\* 0, so the first row is kept whatever its y.
RECURSIVE CleanupUnbounded(_, _, _)
CleanupUnbounded(s, best, seen) ==
    IF s = <<>> THEN <<>>
    ELSE IF ~seen \/ s[1][2] > best
         THEN <<s[1]>> \o CleanupUnbounded(Tail(s), s[1][2], TRUE)
    ELSE CleanupUnbounded(Tail(s), best, seen)

CleanupFromMinimum(s, best) == CleanupUnbounded(s, best, FALSE)

\* A row is kept when its y is greater than best_acc, which then becomes
\* that y; any other row goes to drop_list.
RECURSIVE Cleanup(_, _)
Cleanup(s, best) ==
    IF s = <<>> THEN <<>>
    ELSE IF s[1][2] > best THEN <<s[1]>> \o Cleanup(Tail(s), s[1][2])
    ELSE Cleanup(Tail(s), best)

-----------------------------------------------------------------------------
(* Delaunay(coords), line 99.  Indices are 1-based here, 0-based in numpy. *)

\* Qhull makes one vertex of coincident rows: the first of them.
Reps(c) == {i \in 1..Len(c) : \A j \in 1..(i - 1) : c[j] # c[i]}

\* The in-circle determinant: 0 when d is on the circle through a, b, c.
CircleDet(a, b, c, d) ==
    LET ax == a[1] - d[1]
        ay == a[2] - d[2]
        bx == b[1] - d[1]
        by == b[2] - d[2]
        cx == c[1] - d[1]
        cy == c[2] - d[2]
    IN  (ax * ax + ay * ay) * (bx * cy - by * cx)
            - (bx * bx + by * by) * (ax * cy - ay * cx)
            + (cx * cx + cy * cy) * (ax * by - ay * bx)

\* d strictly inside the circle through a, b, c.
InCircle(a, b, c, d) == CircleDet(a, b, c, d) * Sign(Cross(a, b, c)) > 0

\* Four distinct points of c lie on one circle.
Cocircular(c) ==
    \E i \in Reps(c), j \in Reps(c), k \in Reps(c), n \in Reps(c) :
        /\ i < j
        /\ j < k
        /\ k < n
        /\ Cross(c[i], c[j], c[k]) # 0
        /\ CircleDet(c[i], c[j], c[k], c[n]) = 0

\* The triangles a Delaunay triangulation may hold: no vertex strictly
\* inside the circumcircle.
DelaunayCandidates(c) ==
    {t \in Reps(c) \X Reps(c) \X Reps(c) :
        /\ t[1] < t[2]
        /\ t[2] < t[3]
        /\ Cross(c[t[1]], c[t[2]], c[t[3]]) # 0
        /\ \A d \in Reps(c) \ {t[1], t[2], t[3]} :
              ~InCircle(c[t[1]], c[t[2]], c[t[3]], c[d])}

\* Some side of triangle s has s on one side and all of t on the other.
SeparatedBySideOf(c, s, t) ==
    \E e \in {<<1, 2, 3>>, <<1, 3, 2>>, <<2, 3, 1>>} :
        LET p == c[s[e[1]]]
            q == c[s[e[2]]]
            r == c[s[e[3]]]
        IN  \A k \in 1..3 : Sign(Cross(p, q, c[t[k]])) * Sign(Cross(p, q, r)) <= 0

Overlap(c, s, t) == ~SeparatedBySideOf(c, s, t) /\ ~SeparatedBySideOf(c, t, s)

TriLess(s, t) ==
    \/ s[1] < t[1]
    \/ (s[1] = t[1] /\ s[2] < t[2])
    \/ (s[1] = t[1] /\ s[2] = t[2] /\ s[3] < t[3])

LeastTri(T) == CHOOSE x \in T : \A y \in T \ {x} : TriLess(x, y)

\* The candidates in index order, each one kept that overlaps none kept
\* before it.
RECURSIVE PickTriangles(_, _, _)
PickTriangles(c, T, acc) ==
    IF T = {} THEN acc
    ELSE LET t == LeastTri(T)
         IN  PickTriangles(c, T \ {t},
                 IF \E k \in 1..Len(acc) : Overlap(c, acc[k], t)
                 THEN acc ELSE Append(acc, t))

\* Cocircular points have more than one Delaunay triangulation and Qhull
\* ('Qt') returns one of them: the one grown from the first candidate or,
\* with diag, from the first candidate that crosses it.
Delaunay(c, diag) ==
    LET T == DelaunayCandidates(c)
        lo == LeastTri(T)
        alt == {t \in T \ {lo} : Overlap(c, lo, t)}
        first == IF diag /\ alt # {} THEN LeastTri(alt) ELSE lo
    IN  IF T = {} THEN <<>> ELSE PickTriangles(c, T \ {first}, <<first>>)

\* Qhull raises QhullError when the points span no triangle.
Triangulable(c) == ~Collinear(Range(c))

\* scipy gives the vertices of a 2-D simplex counter-clockwise; the vertex
\* it starts at is Qhull's.
Oriented(c, t, rot) ==
    LET ccw == IF Cross(c[t[1]], c[t[2]], c[t[3]]) >= 0 THEN t
               ELSE <<t[1], t[3], t[2]>>
    IN  Rotate(ccw, rot % 3)

\* Triples of distinct points on one line.  Qhull's triangulated output
\* ('Qt') may hold regions of zero area.
FlatTriples(c) ==
    {t \in Reps(c) \X Reps(c) \X Reps(c) :
        /\ t[1] < t[2]
        /\ t[2] < t[3]
        /\ Cross(c[t[1]], c[t[2]], c[t[3]]) = 0}

\* tri.vertices, line 105: the triangles of the triangulation, with l.flat
\* after one region of zero area.
TriVertices(c, l) ==
    LET ts == Delaunay(c, l.diag)
        all == IF l.flat /\ FlatTriples(c) # {}
               THEN <<LeastTri(FlatTriples(c))>> \o ts
               ELSE ts
    IN  [k \in 1..Len(all) |-> Oriented(c, all[k], l.rot)]

-----------------------------------------------------------------------------
(* The triangle loop, lines 105-136 *)

Dist2(p, q) == (p[1] - q[1]) * (p[1] - q[1]) + (p[2] - q[2]) * (p[2] - q[2])

\* 16 times the value s(s-a)(s-b)(s-c) of line 121, which is the squared
\* area: (2 * area)^2 = Cross^2.
Heron16(va, vb, vc) == 4 * Cross(va, vb, vc) * Cross(va, vb, vc)

\* Mutant of RadiusFilter: `<=` for `<`.
RadiusFilterInclusive(va, vb, vc, al) ==
    /\ al > 0
    /\ al * al * Dist2(va, vb) * Dist2(vb, vc) * Dist2(vc, va) <= Heron16(va, vb, vc)

\* Line 127, a*b*c / (4*area) < 1/alpha, squared for alpha > 0:
\* a^2 b^2 c^2 * alpha^2 < 16 * area^2.  (The loop runs with alpha > 0
\* only; a negative 1/alpha is below every radius.)
RadiusFilter(va, vb, vc, al) ==
    /\ al > 0
    /\ al * al * Dist2(va, vb) * Dist2(vb, vc) * Dist2(vc, va) < Heron16(va, vb, vc)

IsSquare(n) == \E r \in 0..n : r * r = n

\* The double value of line 121 for three points on one line is exactly 0
\* when the side lengths are whole numbers or two of them are equal;
\* otherwise rounding may leave a value a little above or below 0.
MayRound(va, vb, vc) ==
    LET ds == {Dist2(va, vb), Dist2(vb, vc), Dist2(vc, va)}
    IN  Cardinality(ds) = 3 /\ \E d \in ds : ~IsSquare(d)

\* Mutant of AreaPositive: line 123 left out.
AreaPositiveAlways(c, t) == {TRUE}

\* Line 123, `area > 0`: the outcomes of the test for triangle t.  When it
\* is true math.sqrt (line 124) and the division of line 127 are evaluated.
AreaPositive(c, t) ==
    LET h == Heron16(c[t[1]], c[t[2]], c[t[3]])
    IN  IF h > 0 THEN {TRUE}
        ELSE IF MayRound(c[t[1]], c[t[2]], c[t[3]]) THEN BOOLEAN
        ELSE {FALSE}

\* itertools.combinations([ia, ib, ic], r=2)
Combinations(t) == <<(<<t[1], t[2]>>), (<<t[1], t[3]>>), (<<t[2], t[3]>>)>>

\* Mutant of AddEdges: line 129 without `(j, i) not in edges`.
RECURSIVE AddEdgesOneWay(_, _, _)
AddEdgesOneWay(c, ps, st) ==
    IF ps = <<>> THEN st
    ELSE LET i == ps[1][1]
             j == ps[1][2]
         IN  AddEdgesOneWay(c, Tail(ps),
                 IF <<i, j>> \notin st[1]
                 THEN <<st[1] \cup {<<i, j>>}, Append(st[2], <<c[i], c[j]>>)>>
                 ELSE st)

\* Lines 129-131 for the pairs ps in turn: st = <<edges, edge_points>>.
RECURSIVE AddEdges(_, _, _)
AddEdges(c, ps, st) ==
    IF ps = <<>> THEN st
    ELSE LET i == ps[1][1]
             j == ps[1][2]
         IN  AddEdges(c, Tail(ps),
                 IF <<i, j>> \notin st[1] /\ <<j, i>> \notin st[1]
                 THEN <<st[1] \cup {<<i, j>>}, Append(st[2], <<c[i], c[j]>>)>>
                 ELSE st)

\* One pass of the loop body for triangle t.
TriangleStep(c, t, al, st) ==
    LET pa == c[t[1]]
        pb == c[t[2]]
        pcc == c[t[3]]
    IN  IF Heron16(pa, pb, pcc) > 0 /\ RadiusFilter(pa, pb, pcc, al)
        THEN AddEdges(c, Combinations(t), st)
        ELSE st

-----------------------------------------------------------------------------
(* MultiLineString, polygonize, cascaded_union: lines 139-141 *)

Segs(ep) == {{ep[k][1], ep[k][2]} : k \in 1..Len(ep)}

\* The triangles the segments close.  (Up to HullThreshold points every
\* face the segments bound is one of these.)
FaceTriangles(ep) ==
    LET V == UNION Segs(ep)
    IN  {t \in SUBSET V :
            /\ Cardinality(t) = 3
            /\ \A p \in t, q \in t : p # q => {p, q} \in Segs(ep)}

\* The sides that lie on one face only, directed with the face on the right.
OutlineEdges(ep) ==
    LET F == FaceTriangles(ep)
    IN  {e \in UNION {t \X t : t \in F} :
            /\ e[1] # e[2]
            /\ Cardinality({t \in F : {e[1], e[2]} \subseteq t}) = 1
            /\ \A t \in F : {e[1], e[2]} \subseteq t =>
                  \A r \in t \ {e[1], e[2]} : Cross(e[1], e[2], r) < 0}

\* The union of the polygons: nothing, one Polygon, or a MultiPolygon.
UnionOfFaces(ep, rot) ==
    IF FaceTriangles(ep) = {} THEN [kind |-> "empty", coords |-> <<>>]
    ELSE IF IsSingleRing(OutlineEdges(ep))
    THEN [kind |-> "polygon", coords |-> ClosedRing(OutlineEdges(ep), rot)]
    ELSE [kind |-> "multi", coords |-> <<>>]

-----------------------------------------------------------------------------
(* The call *)

Libs == [rot : 0..(HullThreshold - 1), rev : BOOLEAN, diag : BOOLEAN,
         flat : BOOLEAN, nan : BOOLEAN]

NoGeom == [kind |-> "none", coords |-> <<>>]

NoOutcome == [err |-> "", front |-> <<>>]

\* No ParameterManager has been made.
ManagerIdle ==
    /\ self = <<>>
    /\ pymoo_vector = <<>>
    /\ parameters = <<>>
    /\ output = <<>>
    /\ pm_pc = "idle"
    /\ size = 0
    /\ trial_limit = 0
    /\ pymoo_vector_list = <<>>
    /\ trials = 0
    /\ warned = FALSE

\* len(points.geoms), line 94: every row counts, coincident or not.
NumGeoms == Len(cloud) + (IF nonfinite THEN 1 ELSE 0)

\* Mutants of TakesHull: `alpha == 0` for `alpha <= 0`; distinct points
\* counted for rows.
TakesHullOnlyZero == NumGeoms < HullThreshold \/ alpha = 0

TakesHullDistinct ==
    Cardinality(Range(cloud)) + (IF nonfinite THEN 1 ELSE 0) < HullThreshold
        \/ alpha <= 0

\* Line 94: the condition of the convex-hull branch.
TakesHull == NumGeoms < HullThreshold \/ alpha <= 0

Least(a, b) == IF a < b THEN a ELSE b

\* No triangle the triangulation may hold passes lines 123 and 127: the
\* result of line 141 is empty whatever the library chooses.
NoSurvivor(c, al) ==
    \A t \in DelaunayCandidates(c) :
        ~(/\ Heron16(c[t[1]], c[t[2]], c[t[3]]) > 0
          /\ RadiusFilter(c[t[1]], c[t[2]], c[t[3]], al))

\* The choices this call can read.  A ring or a simplex has no more
\* start vertices than the cloud has points, a LineString two ends; the
\* sort has ties only between points of equal x; the triangulation is not
\* unique only for cocircular points and has a flat region only for points
\* on one line; an unusable hull needs a NaN/Inf row.  A call that ends in
\* Qhull's exception reads none of them, and one whose triangles are all
\* filtered out reads only the start vertex of the simplices.
LibsRead ==
    LET n == Cardinality(Range(cloud))
        dead == ~TakesHull /\ (nonfinite \/ ~Triangulable(cloud))
        bare == ~TakesHull /\ ~dead /\ NoSurvivor(cloud, alpha)
        line == TakesHull /\ Collinear(Range(cloud))
    IN  [rot : IF n = 0 \/ dead THEN {0}
               ELSE IF line THEN 0..(Least(n, 2) - 1)
               ELSE IF bare THEN 0..2
               ELSE 0..(Least(n, HullThreshold) - 1),
         rev : IF ~dead /\ ~bare
                  /\ \E p \in Range(cloud), q \in Range(cloud) :
                         p # q /\ p[1] = q[1]
               THEN BOOLEAN ELSE {FALSE},
         diag : IF ~TakesHull /\ Cocircular(cloud) THEN BOOLEAN ELSE {FALSE},
         flat : IF ~TakesHull /\ Triangulable(cloud) /\ FlatTriples(cloud) # {}
                THEN BOOLEAN ELSE {FALSE},
         nan : IF TakesHull /\ nonfinite THEN BOOLEAN ELSE {FALSE}]

Init ==
    /\ \/ /\ cloud \in SortedClouds
          /\ alpha \in (0 - 1)..MaxAlpha
          /\ nonfinite \in IF Len(cloud) <= 1 THEN BOOLEAN ELSE {FALSE}
       \/ /\ cloud \in {ScenarioFive, ScenarioFlat} \cup ScenariosBelow
          /\ alpha = 0
          /\ nonfinite = FALSE
    /\ lib \in LibsRead
    /\ pc = "entry"
    /\ branch = "none"
    /\ err = ""
    /\ result = NoGeom
    /\ tris = <<>>
    /\ ti = 0
    /\ edges = {}
    /\ edge_points = <<>>
    /\ bound = <<>>
    /\ cand = <<>>
    /\ front = <<>>
    /\ call = 1
    /\ prev = <<>>
    /\ left_point = <<>>
    /\ right_point = <<>>
    /\ roots = {}
    /\ again = FALSE
    /\ earlier = NoOutcome
    /\ supernet = <<>>
    /\ hv_list = <<>>
    /\ hv_k = 0
    /\ hv_pc = "idle"
    /\ hv_interval = <<>>
    /\ hv_seen = <<>>
    /\ ManagerIdle

Raise(e) ==
    /\ pc' = "error"
    /\ err' = e

\* Lines 88-96, hull branch.  Nothing validates the coordinates: a NaN/Inf
\* row reaches GEOS, whose result for it is unspecified (here: an unusable
\* geometry, or the hull of the other rows).
HullBranch ==
    /\ pc = "entry"
    /\ TakesHull
    /\ result' = IF nonfinite /\ lib.nan
                  THEN [kind |-> "invalid", coords |-> <<>>]
                  ELSE ConvexHull(Range(cloud), lib.rot)
    /\ pc' = "boundary"
    /\ branch' = "hull"
    /\ UNCHANGED <<cloud, nonfinite, alpha, lib, err, tris, ti, edges,
                   edge_points, bound, cand, front, call, prev>>
    /\ UNCHANGED <<left_point, right_point, roots, again, earlier>>
    /\ UNCHANGED <<hvvars, pmvars>>

\* Lines 98-102: the triangulation, or Qhull's exception.
Triangulate ==
    /\ pc = "entry"
    /\ ~TakesHull
    /\ IF nonfinite \/ ~Triangulable(cloud)
       THEN /\ Raise("QhullError")
            /\ UNCHANGED tris
       ELSE /\ tris' = TriVertices(cloud, lib)
            /\ pc' = "loop"
            /\ UNCHANGED err
    /\ branch' = "delaunay"
    /\ UNCHANGED <<cloud, nonfinite, alpha, lib, result, ti, edges,
                   edge_points, bound, cand, front, call, prev>>
    /\ UNCHANGED <<left_point, right_point, roots, again, earlier>>
    /\ UNCHANGED <<hvvars, pmvars>>

\* Lines 105-136: the loop body for the next triangle.
LoopStep ==
    /\ pc = "loop"
    /\ ti < Len(tris)
    /\ LET st == TriangleStep(cloud, tris[ti + 1], alpha, <<edges, edge_points>>)
       IN  /\ edges' = st[1]
           /\ edge_points' = st[2]
    /\ ti' = ti + 1
    /\ \E positive \in AreaPositive(cloud, tris[ti + 1]) :
           roots' = IF positive THEN roots \cup {ti + 1} ELSE roots
    /\ UNCHANGED <<cloud, nonfinite, alpha, lib, pc, branch, err, result,
                   tris, bound, cand, front, call, prev>>
    /\ UNCHANGED <<left_point, right_point, again, earlier>>
    /\ UNCHANGED <<hvvars, pmvars>>

\* Lines 139-141, after the last triangle.
Polygonize ==
    /\ pc = "loop"
    /\ ti = Len(tris)
    /\ result' = UnionOfFaces(edge_points, lib.rot)
    /\ pc' = "boundary"
    /\ UNCHANGED <<cloud, nonfinite, alpha, lib, branch, err, tris, ti, edges,
                   edge_points, bound, cand, front, call, prev>>
    /\ UNCHANGED <<left_point, right_point, roots, again, earlier>>
    /\ UNCHANGED <<hvvars, pmvars>>

\* Mutant of EnforceMonotonic: after the cleanup the call goes back to the
\* front selection.
EnforceMonotonicBack ==
    /\ pc = "cleanup"
    /\ front' = Cleanup(cand, BestAccStart)
    /\ pc' = IF cand = front THEN "done" ELSE "select"
    /\ cand' = front'
    /\ UNCHANGED <<cloud, nonfinite, alpha, lib, branch, err, result, tris,
                   ti, edges, edge_points, bound, call, prev>>
    /\ UNCHANGED <<left_point, right_point, roots, again, earlier>>
    /\ UNCHANGED <<hvvars, pmvars>>

\* Mutant of BoundaryOf: the frame's columns named ['y', 'x'].
BoundaryOfSwapped(g) ==
    IF g.kind \in {"line", "polygon"}
    THEN [i \in 1..Len(g.coords) |-> <<g.coords[i][2], g.coords[i][1]>>]
    ELSE <<>>

\* Lines 144-148.  The boundary of a Point or of an empty geometry is an
\* empty GeometryCollection, whose mapping has no 'coordinates' (KeyError);
\* that of a LineString is its two end points; that of a Polygon its closed
\* ring; that of a MultiPolygon a list of rings, which does not fit the two
\* columns of the frame (ValueError).
BoundaryOf(g) ==
    IF g.kind \in {"line", "polygon"} THEN g.coords ELSE <<>>

BoundaryError(g) ==
    IF g.kind \in {"line", "polygon"} THEN ""
    ELSE IF g.kind \in {"multi", "invalid"} THEN "ValueError"
    ELSE "KeyError"

ExtractBoundary ==
    /\ pc = "boundary"
    /\ IF BoundaryError(result) # ""
       THEN /\ Raise(BoundaryError(result))
            /\ UNCHANGED bound
       ELSE /\ bound' = BoundaryOf(result)
            /\ pc' = "select"
            /\ UNCHANGED err
    /\ UNCHANGED <<cloud, nonfinite, alpha, lib, branch, result, tris, ti,
                   edges, edge_points, cand, front, call, prev>>
    /\ UNCHANGED <<left_point, right_point, roots, again, earlier>>
    /\ UNCHANGED <<hvvars, pmvars>>

\* Mutant of SelectFront: the cut and the in-place sort of lines 156-158
\* made on the caller's frame, not on the frame line 148 builds.
SelectFrontInPlace ==
    /\ pc = "select"
    /\ left_point' = bound[IdxMinX(bound)]
    /\ right_point' = bound[IdxMaxY(bound)]
    /\ cand' = SortByX(Cut(bound), lib.rev)
    /\ cloud' = cand'
    /\ pc' = "cleanup"
    /\ UNCHANGED <<nonfinite, alpha, lib, branch, err, result, tris,
                   ti, edges, edge_points, bound, front, call, prev>>
    /\ UNCHANGED <<roots, again, earlier>>
    /\ UNCHANGED <<hvvars, pmvars>>

\* Lines 150-158.
SelectFront ==
    /\ pc = "select"
    /\ left_point' = bound[IdxMinX(bound)]
    /\ right_point' = bound[IdxMaxY(bound)]
    /\ cand' = SortByX(Cut(bound), lib.rev)
    /\ pc' = "cleanup"
    /\ UNCHANGED <<cloud, nonfinite, alpha, lib, branch, err, result, tris,
                   ti, edges, edge_points, bound, front, call, prev>>
    /\ UNCHANGED <<roots, again, earlier>>
    /\ UNCHANGED <<hvvars, pmvars>>

\* Lines 160-173.
EnforceMonotonic ==
    /\ pc = "cleanup"
    /\ front' = Cleanup(cand, BestAccStart)
    /\ pc' = "done"
    /\ UNCHANGED <<cloud, nonfinite, alpha, lib, branch, err, result, tris,
                   ti, edges, edge_points, bound, cand, call, prev>>
    /\ UNCHANGED <<left_point, right_point, roots, again, earlier>>
    /\ UNCHANGED <<hvvars, pmvars>>

\* The caller hands the returned front back as the next cloud, same alpha.
Refeed ==
    /\ pc = "done"
    /\ call = 1
    /\ call' = 2
    /\ prev' = front
    /\ cloud' = front
    /\ nonfinite' = FALSE
    /\ pc' = "entry"
    /\ branch' = "none"
    /\ result' = NoGeom
    /\ tris' = <<>>
    /\ ti' = 0
    /\ edges' = {}
    /\ edge_points' = <<>>
    /\ bound' = <<>>
    /\ cand' = <<>>
    /\ front' = <<>>
    /\ left_point' = <<>>
    /\ right_point' = <<>>
    /\ roots' = {}
    /\ again' = FALSE
    /\ earlier' = NoOutcome
    /\ UNCHANGED <<alpha, lib, err>>
    /\ UNCHANGED <<hvvars, pmvars>>

\* The caller makes the call it has just made once more: same df, same
\* alpha.  Every local of the call is a fresh one.
Recall ==
    /\ pc \in {"done", "error"}
    /\ ~again
    /\ again' = TRUE
    /\ earlier' = [err |-> err, front |-> front]
    /\ pc' = "entry"
    /\ branch' = "none"
    /\ err' = ""
    /\ result' = NoGeom
    /\ tris' = <<>>
    /\ ti' = 0
    /\ edges' = {}
    /\ edge_points' = <<>>
    /\ bound' = <<>>
    /\ cand' = <<>>
    /\ front' = <<>>
    /\ left_point' = <<>>
    /\ right_point' = <<>>
    /\ roots' = {}
    /\ UNCHANGED <<cloud, nonfinite, alpha, lib, call, prev>>
    /\ UNCHANGED <<hvvars, pmvars>>

Next ==
    \/ HullBranch
    \/ Triangulate
    \/ LoopStep
    \/ Polygonize
    \/ ExtractBoundary
    \/ SelectFront
    \/ EnforceMonotonic
    \/ Refeed

Spec == Init /\ [][Next]_vars

-----------------------------------------------------------------------------
(* collect_hv, lines 358-378 *)

\* range(a, b, st) for b > a, st > 0
PyRange(a, b, st) == [i \in 1..((b - a + st - 1) \div st) |-> a + (i - 1) * st]

\* Lines 359-361.
start_interval == PyRange(StartStep, StartStop, StartStep)
end_interval == PyRange(StartStop, EndStop, EndStep)
full_interval == start_interval \o end_interval

\* supernet.iloc[:evals]
ILocPrefix(t, evals) == SubSeq(t, 1, Least(evals, Len(t)))

\* frontier_builder(df, optimization_metrics) with the default alpha = 0:
\* the call of the stages above as one function of df, for a table of
\* finite values.  [err, front]
FrontierBuilderDefault(df, l) ==
    LET g == ConvexHull(Range(df), l.rot)
    IN  IF BoundaryError(g) # ""
        THEN [err |-> BoundaryError(g), front |-> <<>>]
        ELSE [err |-> "",
              front |-> Cleanup(SortByX(Cut(BoundaryOf(g)), l.rev), BestAccStart)]

\* Mutant of RunningMax: `>` for `<` at line 371.
RECURSIVE RunningMaxFlipped(_, _)
RunningMaxFlipped(h, i) ==
    IF i >= Len(h) THEN h
    ELSE RunningMaxFlipped(
             IF h[i + 1] > h[i] THEN [h EXCEPT ![i + 1] = h[i]] ELSE h, i + 1)

\* Lines 370-372: each entry raised to the entry before it.
RECURSIVE RunningMax(_, _)
RunningMax(h, i) ==
    IF i >= Len(h) THEN h
    ELSE RunningMax(IF h[i + 1] < h[i] THEN [h EXCEPT ![i + 1] = h[i]] ELSE h, i + 1)

\* The rows (macs, accuracy_top1) of the explored `supernet` frames.
Tables ==
    UNION {[1..n -> (0..MaxMacs) \X (1..2)] : n \in 0..MaxRows}

\* A call of collect_hv(hv, supernet).  Of the front collect_hv reads only
\* what hv.do makes of it, which is any value here, so the library choices
\* are not explored.
InitHV ==
    /\ supernet \in Tables
    /\ hv_list = <<>>
    /\ hv_k = 0
    /\ hv_pc = "loop"
    /\ hv_interval = full_interval
    /\ hv_seen = <<>>
    /\ cloud = <<>>
    /\ nonfinite = FALSE
    /\ alpha = 0
    /\ lib = [rot |-> 0, rev |-> FALSE, diag |-> FALSE, flat |-> FALSE,
              nan |-> FALSE]
    /\ pc = "idle"
    /\ branch = "none"
    /\ err = ""
    /\ result = NoGeom
    /\ tris = <<>>
    /\ ti = 0
    /\ edges = {}
    /\ edge_points = <<>>
    /\ bound = <<>>
    /\ cand = <<>>
    /\ front = <<>>
    /\ call = 1
    /\ prev = <<>>
    /\ left_point = <<>>
    /\ right_point = <<>>
    /\ roots = {}
    /\ again = FALSE
    /\ earlier = NoOutcome
    /\ ManagerIdle

\* Lines 364-368, one pass: the front of the next prefix and its
\* hypervolume.  Nothing catches what frontier_builder raises.
HvIterate ==
    /\ hv_pc = "loop"
    /\ hv_k < Len(hv_interval)
    /\ LET df == ILocPrefix(supernet, hv_interval[hv_k + 1])
           out == FrontierBuilderDefault(df, lib)
       IN  /\ hv_seen' = Append(hv_seen, Len(df))
           /\ IF out.err # ""
              THEN /\ hv_pc' = "error"
                   /\ UNCHANGED <<hv_list, hv_k>>
              ELSE /\ \E v \in 0..MaxHv : hv_list' = Append(hv_list, v)
                   /\ hv_k' = hv_k + 1
                   /\ UNCHANGED hv_pc
    /\ UNCHANGED <<supernet, hv_interval>>
    /\ UNCHANGED <<fbvars, pmvars>>

\* Lines 370-378, after the last pass.
HvReturn ==
    /\ hv_pc = "loop"
    /\ hv_k = Len(hv_interval)
    /\ hv_interval' = <<1>> \o hv_interval
    /\ hv_list' = <<0>> \o RunningMax(hv_list, 1)
    /\ hv_pc' = "return"
    /\ UNCHANGED <<supernet, hv_k, hv_seen>>
    /\ UNCHANGED <<fbvars, pmvars>>

NextHV ==
    \/ HvIterate
    \/ HvReturn

SpecHV == InitHV /\ [][NextHV]_vars

\* The calls of Next, each of them made a second time at some point.
NextRepeat ==
    \/ Next
    \/ Recall

SpecRepeat == Init /\ [][NextRepeat]_vars

\* The call moves on: to another stage, or to the next triangle.
Advance ==
    /\ pc \notin {"done", "error"}
    /\ pc' \in {"loop", "boundary", "select", "cleanup", "done", "error"}
    /\ ti' \in {ti, ti + 1}
    /\ pc' # pc \/ ti' # ti

\* A call that has begun runs on: the interpreter goes from each statement
\* to the next, and no statement of lines 87-173 waits for anything.
SpecLive == Spec /\ WF_<<pc, ti>>(Advance)

-----------------------------------------------------------------------------
(* ParameterManager, manager.py *)

\* The keys of the explored param_dicts, in the order they were inserted.
ParamNames == <<"kernel", "depth">>

\* The explored `vars` lists: empty, with one value twice, with all values.
OptionLists == UNION {[1..n -> 0..MaxOpt] : n \in 0..(MaxOpt + 1)}

\* The explored param_dicts: a dict of no, one or both keys, each with a
\* `count` and a `vars` list.
ParamDicts ==
    UNION {[{ParamNames[i] : i \in 1..n} ->
               [count : 0..MaxCount, vars : OptionLists]]
           : n \in 0..Len(ParamNames)}

\* param_dict.items(): the keys in insertion order.
Items(pd) == SelectSeq(ParamNames, LAMBDA key : key \in DOMAIN pd)

\* dict(zip(index_simple, options['vars'])), lines 37-38: the dict
\* 0 -> vars[0], 1 -> vars[1], ...
DictZip(vs) == [k \in 0..(Len(vs) - 1) |-> vs[k + 1]]

\* Lines 24-46, the loop over the items still to come:
\* [parameter_mapper, parameter_upperbound, parameter_count]
RECURSIVE ProcessItems(_, _)
ProcessItems(pd, keys) ==
    IF keys = <<>>
    THEN [mapper |-> <<>>, param_upperbound |-> <<>>, param_count |-> 0]
    ELSE LET options == pd[keys[1]]
             rest == ProcessItems(pd, Tail(keys))
         IN  [mapper |->
                  [i \in 1..options.count |-> DictZip(options.vars)]
                      \o rest.mapper,
              param_upperbound |->
                  [i \in 1..options.count |-> Len(options.vars) - 1]
                      \o rest.param_upperbound,
              param_count |-> options.count + rest.param_count]

process_param_dict(pd) == ProcessItems(pd, Items(pd))

\* {v: k for k, v in value.items()}, line 55: a value that is there under
\* several keys ends up with the last of them.
Invert(value) ==
    [v \in {value[k] : k \in DOMAIN value} |->
        MaxOf({k \in DOMAIN value : value[k] = v})]

\* Lines 48-58.
inv_mapper(mapper) == [i \in 1..Len(mapper) |-> Invert(mapper[i])]

\* __init__, lines 13-18: the fields of the new object.
ParameterManager(pd) ==
    LET made == process_param_dict(pd)
    IN  [param_dict |-> pd,
         mapper |-> made.mapper,
         param_upperbound |-> made.param_upperbound,
         param_count |-> made.param_count,
         inv_mapper |-> inv_mapper(made.mapper)]

\* Lines 116-129, the loop over the items still to come; `counter` counts
\* from 0 as in the code, the lists here from 1.
RECURSIVE ParamItems(_, _, _, _, _)
ParamItems(s, v, keys, counter, out) ==
    IF keys = <<>> THEN out
    ELSE LET n == s.param_dict[keys[1]].count
         IN  ParamItems(s, v, Tail(keys), counter + n,
                        (keys[1] :> [i \in 1..n |->
                                        s.mapper[counter + i][v[counter + i]]])
                            @@ out)

translate2param(s, v) == ParamItems(s, v, Items(s.param_dict), 0, <<>>)

\* Mutant of translate2pymoo: line 141 looks up inv_mapper[param_counter],
\* not inv_mapper[mapper_counter]; a KeyError there shows as -1.
RECURSIVE PymooItemsByParamCounter(_, _, _, _)
PymooItemsByParamCounter(s, params, keys, mapper_counter) ==
    IF keys = <<>> THEN <<>>
    ELSE LET n == s.param_dict[keys[1]].count
         IN  [i \in 1..n |->
                 IF params[keys[1]][i] \in DOMAIN s.inv_mapper[i]
                 THEN s.inv_mapper[i][params[keys[1]][i]]
                 ELSE 0 - 1]
             \o PymooItemsByParamCounter(s, params, Tail(keys),
                                         mapper_counter + n)

translate2pymooByParamCounter(s, params) ==
    PymooItemsByParamCounter(s, params, Items(s.param_dict), 0)

\* Lines 135-145, the loop over the items still to come.
RECURSIVE PymooItems(_, _, _, _)
PymooItems(s, params, keys, mapper_counter) ==
    IF keys = <<>> THEN <<>>
    ELSE LET n == s.param_dict[keys[1]].count
         IN  [i \in 1..n |->
                 s.inv_mapper[mapper_counter + i][params[keys[1]][i]]]
             \o PymooItems(s, params, Tail(keys), mapper_counter + n)

translate2pymoo(s, params) == PymooItems(s, params, Items(s.param_dict), 0)

\* The index vectors of a manager: one entry per mapper, each from 0 to
\* its upper bound.
Vectors(s) ==
    {v \in [1..s.param_count -> 0..MaxOpt] :
        \A i \in 1..s.param_count : v[i] <= s.param_upperbound[i]}

\* A manager has been made of some param_dict.
InitPM ==
    /\ \E pd \in ParamDicts : self = ParameterManager(pd)
    /\ pymoo_vector = <<>>
    /\ parameters = <<>>
    /\ output = <<>>
    /\ pm_pc = "ready"
    /\ size = 0
    /\ trial_limit = 0
    /\ pymoo_vector_list = <<>>
    /\ trials = 0
    /\ warned = FALSE
    /\ cloud = <<>>
    /\ nonfinite = FALSE
    /\ alpha = 0
    /\ lib = [rot |-> 0, rev |-> FALSE, diag |-> FALSE, flat |-> FALSE,
              nan |-> FALSE]
    /\ pc = "idle"
    /\ branch = "none"
    /\ err = ""
    /\ result = NoGeom
    /\ tris = <<>>
    /\ ti = 0
    /\ edges = {}
    /\ edge_points = <<>>
    /\ bound = <<>>
    /\ cand = <<>>
    /\ front = <<>>
    /\ call = 1
    /\ prev = <<>>
    /\ left_point = <<>>
    /\ right_point = <<>>
    /\ roots = {}
    /\ again = FALSE
    /\ earlier = NoOutcome
    /\ supernet = <<>>
    /\ hv_list = <<>>
    /\ hv_k = 0
    /\ hv_pc = "idle"
    /\ hv_interval = <<>>
    /\ hv_seen = <<>>

\* translate2param(pymoo_vector), for a vector within the upper bounds.
Translate2Param ==
    /\ pm_pc = "ready"
    /\ \E v \in Vectors(self) :
           /\ pymoo_vector' = v
           /\ parameters' = translate2param(self, v)
    /\ pm_pc' = "param"
    /\ UNCHANGED <<self, output, rsvars>>
    /\ UNCHANGED <<fbvars, hvvars>>

\* translate2pymoo(parameters), for the dict translate2param returned.
Translate2Pymoo ==
    /\ pm_pc = "param"
    /\ output' = translate2pymoo(self, parameters)
    /\ pm_pc' = "pymoo"
    /\ UNCHANGED <<self, pymoo_vector, parameters, rsvars>>
    /\ UNCHANGED <<fbvars, hvvars>>

NextPM ==
    \/ Translate2Param
    \/ Translate2Pymoo

SpecPM == InitPM /\ [][NextPM]_vars

\* random_sample, lines 86-91, when every mapper has an option: one
\* random.choice per mapper, any of its indices.
RandomSample(s) ==
    {v \in [1..Len(s.mapper) -> 0..MaxOpt] :
        \A i \in 1..Len(s.mapper) : v[i] \in DOMAIN s.mapper[i]}

\* random.choice(options) raises IndexError for an empty list.
CanSample(s) == \A i \in 1..Len(s.mapper) : DOMAIN s.mapper[i] # {}

\* The number of different samples there are.
RECURSIVE SampleSpace(_)
SampleSpace(ub) ==
    IF ub = <<>> THEN 1 ELSE (ub[1] + 1) * SampleSpace(Tail(ub))

\* The param_dicts random_samples is explored for.  Of a `vars` list it
\* reads the length only, so the values are 0, 1, ... in each; the dicts
\* have at most twice MaxSize different samples, fewer than `size` and
\* more than `size` among them.
SampleDicts ==
    {pd \in ParamDicts :
        /\ \A key \in DOMAIN pd :
               \A i \in 1..Len(pd[key].vars) : pd[key].vars[i] = i - 1
        /\ SampleSpace(process_param_dict(pd).param_upperbound)
               <= 2 * MaxSize}

\* A manager has been made of one of these param_dicts.
InitRS ==
    /\ InitPM
    /\ self.param_dict \in SampleDicts

\* The call random_samples(size, trial_limit) for a size and a limit of
\* at least one, lines 97-99.
RandomSamples ==
    /\ pm_pc = "ready"
    /\ size' \in 1..MaxSize
    /\ trial_limit' \in 1..MaxTrials
    /\ pymoo_vector_list' = <<>>
    /\ trials' = 0
    /\ pm_pc' = "sampling"
    /\ UNCHANGED <<self, pymoo_vector, parameters, output, warned>>
    /\ UNCHANGED <<fbvars, hvvars>>

\* Lines 100-104, one pass of the loop.
Draw ==
    /\ pm_pc = "sampling"
    /\ Len(pymoo_vector_list) < size
    /\ trials < trial_limit
    /\ IF CanSample(self)
       THEN /\ \E sample \in RandomSample(self) :
                  pymoo_vector_list' =
                      IF sample \notin Range(pymoo_vector_list)
                      THEN Append(pymoo_vector_list, sample)
                      ELSE pymoo_vector_list
            /\ trials' = trials + 1
            /\ UNCHANGED pm_pc
       ELSE /\ pm_pc' = "error"
            /\ UNCHANGED <<pymoo_vector_list, trials>>
    /\ UNCHANGED <<self, pymoo_vector, parameters, output, size, trial_limit,
                   warned>>
    /\ UNCHANGED <<fbvars, hvvars>>

\* Lines 106-109, after the loop.
SamplesReturn ==
    /\ pm_pc = "sampling"
    /\ ~(Len(pymoo_vector_list) < size /\ trials < trial_limit)
    /\ warned' = (trials >= trial_limit)
    /\ pm_pc' = "returned"
    /\ UNCHANGED <<self, pymoo_vector, parameters, output, size, trial_limit,
                   pymoo_vector_list, trials>>
    /\ UNCHANGED <<fbvars, hvvars>>

NextRS ==
    \/ RandomSamples
    \/ Draw
    \/ SamplesReturn

SpecRS == InitRS /\ [][NextRS]_vars

-----------------------------------------------------------------------------
(* Properties *)

Terminal == pc \in {"done", "error"}

StrictlyIncreasing(f) ==
    \A i \in 1..(Len(f) - 1) : f[i][1] < f[i + 1][1] /\ f[i][2] < f[i + 1][2]

\* C1 (as claimed): every returned front is strictly increasing in x and in
\* y from each point to the next.
C1_StrictlyIncreasingBoth == pc = "done" => StrictlyIncreasing(front)

\* C2: every coordinate pair of the boundary, of the candidate front and of
\* the returned front is a row of the input cloud.
C2_NoFabricatedCoordinates ==
    /\ Range(result.coords) \subseteq Range(cloud)
    /\ Range(bound) \subseteq Range(cloud)
    /\ Range(cand) \subseteq Range(cloud)
    /\ Range(front) \subseteq Range(cloud)

C2_Witness ==
    /\ pc = "done"
    /\ branch = "delaunay"
    /\ Len(front) >= 2
    /\ Cardinality(Range(cloud)) > Len(front)

\* C3 (as claimed): a second call on the front the first call returned
\* succeeds and returns that same front.
C3_Idempotent == (call = 2 /\ Terminal) => (pc = "done" /\ front = prev)

\* C4 (as claimed): a cloud of exactly one point is returned as the front.
C4_SinglePointReturned ==
    (Len(cloud) = 1 /\ ~nonfinite /\ Terminal) => (pc = "done" /\ front = cloud)

\* C5: the cloud {(1,1),(2,3),(3,2),(4,5),(5,4)} with alpha = 0 raises
\* nothing and returns exactly [(1,1),(2,3),(4,5)].
C5_ScenarioFront ==
    (cloud = ScenarioFive /\ alpha = 0) =>
        /\ pc # "error"
        /\ pc = "done" => front = <<(<<1, 1>>), (<<2, 3>>), (<<4, 5>>)>>

C5_Witness == cloud = ScenarioFive /\ alpha = 0 /\ pc = "done"

\* C6 (as claimed): the cloud {(1,5),(2,5),(3,5)} returns the front [(1,5)].
C6_FlatKeepsFirst ==
    (cloud = ScenarioFlat /\ pc = "done") => front = <<(<<1, 5>>)>>

\* C7 (as claimed): a cloud with a NaN/Inf coordinate goes from the entry
\* straight to an InvalidCoordinate error.
C7_NonFiniteRejected ==
    nonfinite => (pc = "entry" \/ (pc = "error" /\ err = "InvalidCoordinate"))

DegenerateLine(b) == b # <<>> /\ b[IdxMinX(b)][1] = b[IdxMaxY(b)][1]

\* C9 (as claimed): when left_point and right_point share their x, the call
\* does not go on to a front: it ends in an error.
C9_DegenerateLineSignalled ==
    DegenerateLine(bound) => pc \notin {"cleanup", "done"}

\* C10 (as claimed): the hull branch is taken exactly when the cloud has
\* fewer than 4 distinct points or alpha = 0.
C10_HullIffDistinctOrZero ==
    branch # "none" =>
        (branch = "hull" <=>
            (Cardinality(Range(cloud)) + (IF nonfinite THEN 1 ELSE 0)
                 < HullThreshold \/ alpha = 0))

\* C10 (amended): the hull branch is taken exactly when the cloud has fewer
\* than 4 rows, coincident ones counted, or alpha <= 0; every other call
\* triangulates.
C10_HullIffRowsOrNonPositive ==
    branch # "none" =>
        (branch = "hull" <=>
            (Len(cloud) + (IF nonfinite THEN 1 ELSE 0) < HullThreshold
                 \/ alpha <= 0))

C10_Witness ==
    /\ branch = "delaunay"
    /\ Cardinality(Range(cloud)) < HullThreshold
    /\ Len(cloud) = HullThreshold

StagesAfter(p) ==
    CASE p = "entry" -> {"loop", "boundary", "error"}
      [] p = "loop" -> {"loop", "boundary"}
      [] p = "boundary" -> {"select", "error"}
      [] p = "select" -> {"cleanup"}
      [] p = "cleanup" -> {"done"}
      [] OTHER -> {}

\* One step of a call goes to a later stage, or to the next triangle of
\* the loop; after Done or Error the only step is the caller's next call.
StageStep ==
    IF Terminal
    THEN pc' = "entry" /\ (call' # call \/ again' # again)
    ELSE /\ pc' \in StagesAfter(pc)
         /\ (pc' = "loop" /\ pc = "loop") => (ti' = ti + 1 /\ ti' <= Len(tris))
         /\ call' = call

\* C13: every call passes through shape construction (the hull, or the
\* triangulation and its filter loop), boundary extraction, front selection
\* and cleanup in this order, never back to an earlier stage, and every call
\* reaches Done or Error, which it leaves only for the caller's next call.
C13_StagesInOrderToTheEnd ==
    /\ [][StageStep]_vars
    /\ []<>Terminal

C13_Witness ==
    /\ pc = "done"
    /\ branch = "delaunay"
    /\ ti >= 2
    /\ front # <<>>

\* The call has a boundary: line 144 raised nothing.
HasBound == pc \in {"select", "cleanup", "done"}

\* C14 (as claimed): whenever boundary extraction succeeds, the coordinate
\* sequence handed to front selection is closed, its first coordinate equal
\* to its last.
C14_BoundIsClosedRing ==
    HasBound => (bound # <<>> /\ bound[1] = bound[Len(bound)])

\* The index pairs of a triangle, without order.
PairsOf(t) == {{t[1], t[2]}, {t[1], t[3]}, {t[2], t[3]}}

\* Twice the area of triangle t, and the product of its squared sides.
TwiceArea(t) ==
    LET x == Cross(cloud[t[1]], cloud[t[2]], cloud[t[3]])
    IN  IF x < 0 THEN 0 - x ELSE x

SidesSquared(t) ==
    Dist2(cloud[t[1]], cloud[t[2]]) * Dist2(cloud[t[2]], cloud[t[3]])
        * Dist2(cloud[t[3]], cloud[t[1]])

\* R = abc / (4 area) against 1 / alpha, both squared and cleared of
\* fractions: alpha^2 a^2 b^2 c^2 against 16 area^2.
RadiusBelow(t) ==
    alpha * alpha * SidesSquared(t) < 4 * TwiceArea(t) * TwiceArea(t)

RadiusEqual(t) ==
    alpha * alpha * SidesSquared(t) = 4 * TwiceArea(t) * TwiceArea(t)

\* The loop of line 105 has run over every triangle.
LoopOver == branch = "delaunay" /\ pc # "error" /\ ti = Len(tris) /\ pc # "entry"

\* C15: after the loop the edge set holds, once each, exactly the sides of
\* the triangles of positive area whose circumradius is strictly below
\* 1/alpha: all three sides of such a triangle, none of any other, none of
\* a triangle with R = 1/alpha.
C15_SurvivingEdges ==
    LoopOver =>
        /\ {{e[1], e[2]} : e \in edges}
               = UNION {PairsOf(tris[k]) :
                          k \in {n \in 1..Len(tris) :
                                    TwiceArea(tris[n]) > 0 /\ RadiusBelow(tris[n])}}
        /\ \A k \in 1..Len(tris) :
               RadiusEqual(tris[k]) =>
                   \A q \in PairsOf(tris[k]) :
                       (\E e \in edges : {e[1], e[2]} = q) =>
                           \E n \in 1..Len(tris) :
                               n # k /\ q \in PairsOf(tris[n]) /\ RadiusBelow(tris[n])

C15_Witness ==
    /\ LoopOver
    /\ edges # {}
    /\ \E k \in 1..Len(tris) : TwiceArea(tris[k]) > 0 /\ RadiusEqual(tris[k])

\* C16: a triangle whose value at line 121 is zero or negative is skipped:
\* the test of line 123 fails for it, no square root and no division is
\* evaluated, no edge is added, nothing is raised and the loop goes on.
C16_NonPositiveAreaSkipped ==
    [][(pc = "loop" /\ ti' = ti + 1) =>
          LET t == tris[ti + 1]
              skipped == (ti + 1) \notin roots'
          IN  /\ (TwiceArea(t) = 0
                     /\ ~MayRound(cloud[t[1]], cloud[t[2]], cloud[t[3]])) => skipped
              /\ skipped =>
                    /\ TwiceArea(t) = 0
                    /\ edges' = edges
                    /\ edge_points' = edge_points
                    /\ pc' = "loop"
                    /\ err' = ""]_vars

C16_Witness ==
    /\ pc = "boundary"
    /\ \E k \in 1..Len(tris) : k \notin roots /\ k < Len(tris)
    /\ edges # {}

\* C17: all through the loop the edge set never holds a pair in both
\* orders, and the list of segments has one entry for each pair of the set.
C17_EdgesOncePerPair ==
    /\ \A e \in edges : <<e[2], e[1]>> \notin edges
    /\ Len(edge_points) = Cardinality(edges)

C17_Witness ==
    /\ pc = "loop"
    /\ ti = 2
    /\ Cardinality(edges) = 5
    /\ \E q \in Range(Combinations(tris[2])) : <<q[2], q[1]>> \in edges

\* The front selection has run.
Selected == pc \in {"cleanup", "done"}

\* C18: left_point is the boundary coordinate of least x and right_point
\* the one of greatest y (not of greatest x), each the first of its kind in
\* boundary order.
C18_LeftMinXRightMaxY ==
    Selected =>
        /\ \E i \in 1..Len(bound) :
               /\ left_point = bound[i]
               /\ \A j \in 1..Len(bound) : bound[j][1] >= bound[i][1]
               /\ \A j \in 1..(i - 1) : bound[j][1] > bound[i][1]
        /\ \E i \in 1..Len(bound) :
               /\ right_point = bound[i]
               /\ \A j \in 1..Len(bound) : bound[j][2] <= bound[i][2]
               /\ \A j \in 1..(i - 1) : bound[j][2] < bound[i][2]

C18_Witness ==
    /\ Selected
    /\ \E p \in Range(bound) : p # left_point /\ p[1] = left_point[1]
    /\ \E p \in Range(bound) : p # right_point /\ p[2] = right_point[2]
    /\ \E p \in Range(bound) : p[1] > right_point[1]

\* How often p occurs in s.
Count(s, p) == Cardinality({i \in 1..Len(s) : s[i] = p})

\* p is on or above the line through left_point and right_point
\* (left_point has the least x, so right_point is not to the left of it).
OnOrAbove(p) ==
    (p[2] - left_point[2]) * (right_point[1] - left_point[1])
        >= (right_point[2] - left_point[2]) * (p[1] - left_point[1])

\* C19 (as claimed): the candidate front is the boundary coordinates on or
\* above the line through left_point and right_point, these two included,
\* in ascending order of x.
C19_CandidateOnOrAboveLine ==
    Selected =>
        /\ left_point \in Range(cand)
        /\ right_point \in Range(cand)
        /\ \A i \in 1..(Len(cand) - 1) : cand[i][1] <= cand[i + 1][1]
        /\ left_point[1] # right_point[1] =>
               \A p \in Range(bound) \cup Range(cand) :
                   Count(cand, p) = IF OnOrAbove(p) THEN Count(bound, p) ELSE 0

\* The rows of s one scan keeps: above 0 and above every row before them.
KeptRows(s) ==
    {i \in 1..Len(s) : s[i][2] > 0 /\ \A j \in 1..(i - 1) : s[i][2] > s[j][2]}

\* C20: the returned front is the candidate front without the rows whose y
\* is not strictly above 0 and above the y of every row before them (a row
\* equal to the best so far is dropped), the kept rows in their order.
C20_CleanupIsOneScan ==
    pc = "done" =>
        /\ Len(front) = Cardinality(KeptRows(cand))
        /\ \A i \in KeptRows(cand) :
               front[Cardinality({j \in KeptRows(cand) : j <= i})] = cand[i]

C20_Witness ==
    /\ pc = "done"
    /\ Len(front) >= 2
    /\ \E i \in 1..Len(cand), j \in 1..Len(cand) :
           j < i /\ cand[i][2] = cand[j][2] /\ cand[j] \in Range(front)
    /\ \E i \in 1..Len(cand), j \in 1..Len(cand) :
           j < i /\ cand[i][2] < cand[j][2]

\* A step of the call itself: every step but the caller's next call, which
\* is the only one that goes to the entry.
CallStep == pc' # "entry"

\* What is there before the call and after it: the caller's table and
\* alpha, the installed libraries, the caller's own notes and frames.
Outliving == <<cloud, nonfinite, alpha, lib, call, prev, again, earlier,
               hvvars, pmvars>>

\* C21: no step of a call of frontier_builder, whether the call goes on to
\* return a front or to raise, changes the caller's table (its rows, their
\* order, their values) or anything else that is there after the call: the
\* call writes its own locals only.
C21_InputUnchanged == [][CallStep => UNCHANGED Outliving]_vars

C21_Witness ==
    /\ pc = "done"
    /\ call = 1
    /\ Len(cloud) >= 3
    /\ front # <<>>
    /\ Len(front) < Len(cand)
    /\ Len(cand) < Len(cloud)

\* q is at least as good as p in both objectives (x is minimised, y is
\* maximised) and is another point.
Dominates(q, p) == q # p /\ q[1] <= p[1] /\ q[2] >= p[2]

\* C22: every point of a returned front has y > 0; a cloud with no y above
\* 0 returns the empty front, and a boundary point with y <= 0 is not
\* returned, dominated or not.
C22_FrontAboveZero ==
    pc = "done" =>
        /\ \A i \in 1..Len(front) : front[i][2] > 0
        /\ (\A p \in Range(cloud) : p[2] <= 0) => front = <<>>

C22_Witness ==
    /\ pc = "done"
    /\ call = 1
    /\ front # <<>>
    /\ \E p \in Range(cand) :
           /\ p[2] < 0
           /\ \A q \in Range(cloud) : ~Dominates(q, p)

\* What collect_hv returns: the series and the interval array have one
\* length and begin with 0 and 1, and the computed entries of the series
\* (all but the first) never go down.
ReturnedSeries ==
    /\ Len(hv_list) = Len(hv_interval)
    /\ hv_list[1] = 0
    /\ hv_interval[1] = 1
    /\ \A i \in 2..(Len(hv_list) - 1) : hv_list[i] <= hv_list[i + 1]

\* Lines 370-376 as one step: entry i of the computed list comes back, one
\* place further on, as the greatest of the computed entries 1..i.
RaisedToRunningMax ==
    (hv_pc = "loop" /\ hv_pc' = "return") =>
        \A i \in 1..Len(hv_list) :
            hv_list'[i + 1] = MaxOf({hv_list[j] : j \in 1..i})

\* C23 (as claimed): the returned series is non-decreasing over its
\* computed entries, begins with 0 paired with the count 1, is as long as
\* the returned interval array, and was computed on strictly growing
\* prefixes of the log.
C23_SeriesOnStrictlyGrowingPrefixes ==
    hv_pc = "return" =>
        /\ ReturnedSeries
        /\ \A k \in 1..(Len(hv_seen) - 1) : hv_seen[k] < hv_seen[k + 1]

\* C23 (amended): the returned series is non-decreasing over its computed
\* entries, each of them the running maximum of the computed values up to
\* it, begins with 0 paired with the count 1, and is as long as the
\* returned interval array; the snapshots are taken at strictly growing
\* counts, on prefixes of the log that never shrink and that grow strictly
\* as long as the count is not beyond the rows of the log (from there on
\* every snapshot is the whole log).
C23_SeriesOnGrowingPrefixes ==
    /\ [](hv_pc = "return" =>
            /\ ReturnedSeries
            /\ \A k \in 1..(Len(full_interval) - 1) :
                   full_interval[k] < full_interval[k + 1])
    /\ [](\A k \in 1..Len(hv_seen) :
             /\ hv_seen[k] = Len(supernet) \/ hv_seen[k] = full_interval[k]
             /\ k > 1 => hv_seen[k - 1] <= hv_seen[k]
             /\ (k > 1 /\ full_interval[k] <= Len(supernet)) =>
                    hv_seen[k - 1] < hv_seen[k])
    /\ [][RaisedToRunningMax]_vars

C23_Witness ==
    /\ hv_pc = "return"
    /\ Len(supernet) = 3
    /\ hv_seen = <<2, 3, 3>>
    /\ hv_list = <<0, 1, 1, 1>>

\* mapper[i] then inv_mapper[i] gives back every index.
InverseAtEveryPosition ==
    \A i \in 1..Len(self.mapper) :
        \A k \in DOMAIN self.mapper[i] :
            self.inv_mapper[i][self.mapper[i][k]] = k

\* No `vars` list of the param_dict holds a value twice.
DistinctVars ==
    \A key \in DOMAIN self.param_dict :
        LET vs == self.param_dict[key].vars
        IN  \A i \in 1..Len(vs), j \in 1..Len(vs) : i # j => vs[i] # vs[j]

\* C24 (as claimed): for every param_dict and every index vector v within
\* the upper bounds, translate2pymoo(translate2param(v)) = v, and
\* inv_mapper is the inverse of mapper at every position.
C24_RoundTrip ==
    pm_pc # "idle" =>
        /\ InverseAtEveryPosition
        /\ pm_pc = "pymoo" => output = pymoo_vector

\* C24 (amended): for every param_dict whose `vars` lists each hold
\* pairwise different values, and every index vector v within the upper
\* bounds, translate2pymoo(translate2param(v)) = v, and inv_mapper is the
\* inverse of mapper at every position.
C24_RoundTripOfDistinctVars ==
    (pm_pc # "idle" /\ DistinctVars) =>
        /\ InverseAtEveryPosition
        /\ pm_pc = "pymoo" => output = pymoo_vector

C24_Witness ==
    /\ pm_pc = "pymoo"
    /\ DistinctVars
    /\ DOMAIN self.param_dict = {"kernel", "depth"}
    /\ self.param_dict["kernel"].count = 2
    /\ self.param_dict["depth"].count = 1
    /\ Len(self.param_dict["kernel"].vars) = 2
    /\ self.param_dict["depth"].vars # self.param_dict["kernel"].vars
    /\ pymoo_vector = <<0, 1, 1>>
    /\ parameters["kernel"][1] # parameters["kernel"][2]
    /\ output = pymoo_vector

\* What random_samples returns: pairwise different vectors, no more than
\* `size` of them, every entry within its upper bound, made in no more
\* than `trial_limit` draws, and fewer than `size` of them only when all
\* `trial_limit` draws were made.
ReturnedSamples ==
    /\ trials <= trial_limit
    /\ Len(pymoo_vector_list) <= size
    /\ \A i \in 1..Len(pymoo_vector_list), j \in 1..Len(pymoo_vector_list) :
           i # j => pymoo_vector_list[i] # pymoo_vector_list[j]
    /\ \A i \in 1..Len(pymoo_vector_list) :
           /\ Len(pymoo_vector_list[i]) = self.param_count
           /\ \A k \in 1..self.param_count :
                  /\ pymoo_vector_list[i][k] >= 0
                  /\ pymoo_vector_list[i][k] <= self.param_upperbound[k]
    /\ Len(pymoo_vector_list) < size => trials >= trial_limit

\* C25 (as claimed): random_samples returns, after at most trial_limit
\* draws, a list of pairwise different vectors, at most `size` of them and
\* each entry within its upper bound; fewer than `size` only if
\* trial_limit draws were made; and the warning is logged only when fewer
\* than `size` vectors are returned.
C25_WarningOnlyWhenShort ==
    pm_pc = "returned" =>
        /\ ReturnedSamples
        /\ warned => Len(pymoo_vector_list) < size

\* C11 (as claimed): collect_hv is not aborted by a front build that
\* fails: it goes on to the remaining snapshots and returns.
C11_FailedBuildDoesNotAbort == hv_pc # "error"

====
